---- MODULE Spec2Model ----
(***************************************************************************)
(* Model of the PDF chatbot's ingestion and retrieval pipeline:            *)
(*   - splitTextIntoChunks, the text chunker;                              *)
(*   - the upload handlers (express app.post('/upload') and the            *)
(*     next-connect apiRoute.post), which chunk, embed and upsert;         *)
(*   - the chat handlers (express app.get('/chat') and the two Next.js     *)
(*     handler variants), which relay a streamed completion as SSE.        *)
(*                                                                         *)
(* A JavaScript string is modelled by its run-length encoding: a sequence  *)
(* of <<character, count>> runs with count >= 1 and no two adjacent runs   *)
(* of the same character.  Two strings are equal iff their encodings are.  *)
(***************************************************************************)
EXTENDS Integers, Sequences, FiniteSets, TLC

\* ------------------------------------------------------------------------
\* Bounds of the model
\* ------------------------------------------------------------------------

\* longest text given to the chunker, in runs
MaxRuns == 3

\* longest extracted document text given to an upload handler, in runs
MaxDocRuns == 3

\* loop iterations of splitTextIntoChunks that the chunker specification follows
MaxIter == 4

\* most matches a vector store query returns here (never more than TopK)
MaxMatches == 2

\* most deltas a completion stream delivers before it ends
MaxParts == 2

\* most events the transport delivers in one data chunk of a completion stream
MaxChunkEvents == 2

\* most deltas the completion service produces for a question the client asks
MaxDeltas == 2

\* ------------------------------------------------------------------------
\* Program constants
\* ------------------------------------------------------------------------

\* default value of the maxLength parameter
DefaultMaxLength == 1000

\* a break character is used only at an offset greater than this
BreakThreshold == 200

\* topK of the vector store query
TopK == 5

\* ------------------------------------------------------------------------
\* Strings
\* ------------------------------------------------------------------------

Min(a, b) == IF a < b THEN a ELSE b

Max(a, b) == IF a > b THEN a ELSE b

\* the characters String.prototype.trim removes, among those the model uses
Whitespace == {" ", "\n"}

EmptyStr == <<>>

\* text.length
RECURSIVE StrLen(_)
StrLen(s) == IF s = <<>> THEN 0 ELSE s[1][2] + StrLen(Tail(s))

\* the first k characters of s
RECURSIVE Take(_, _)
Take(s, k) ==
    IF k <= 0 \/ s = <<>> THEN <<>>
    ELSE IF s[1][2] <= k THEN <<s[1]>> \o Take(Tail(s), k - s[1][2])
    ELSE << <<s[1][1], k>> >>

\* s without its first k characters
RECURSIVE Drop(_, _)
Drop(s, k) ==
    IF k <= 0 \/ s = <<>> THEN s
    ELSE IF s[1][2] <= k THEN Drop(Tail(s), k - s[1][2])
    ELSE << <<s[1][1], s[1][2] - k>> >> \o Tail(s)

\* how String.prototype.slice resolves an index: negative counts from the end
SliceIndex(k, n) == IF k < 0 THEN Max(n + k, 0) ELSE Min(k, n)

\* text.slice(a, b)
Slice(s, a, b) ==
    LET n    == StrLen(s)
        from == SliceIndex(a, n)
        to   == SliceIndex(b, n)
    IN  IF from >= to THEN <<>> ELSE Take(Drop(s, from), to - from)

\* s.lastIndexOf(c) for a one-character c: zero-based, -1 when absent
RECURSIVE LastIndexOf(_, _)
LastIndexOf(s, c) ==
    IF s = <<>> THEN -1
    ELSE IF s[Len(s)][1] = c THEN StrLen(s) - 1
    ELSE LastIndexOf(SubSeq(s, 1, Len(s) - 1), c)

RECURSIVE TrimStart(_)
TrimStart(s) ==
    IF s # <<>> /\ s[1][1] \in Whitespace THEN TrimStart(Tail(s)) ELSE s

RECURSIVE TrimEnd(_)
TrimEnd(s) ==
    IF s # <<>> /\ s[Len(s)][1] \in Whitespace
    THEN TrimEnd(SubSeq(s, 1, Len(s) - 1)) ELSE s

\* s.trim()
Trim(s) == TrimEnd(TrimStart(s))

\* s + t
Concat(s, t) ==
    IF s = <<>> THEN t
    ELSE IF t = <<>> THEN s
    ELSE IF s[Len(s)][1] = t[1][1]
    THEN SubSeq(s, 1, Len(s) - 1)
         \o << <<t[1][1], s[Len(s)][2] + t[1][2]>> >> \o Tail(t)
    ELSE s \o t

\* the strings of a sequence of strings, joined in order
RECURSIVE ConcatAll(_)
ConcatAll(ss) == IF ss = <<>> THEN <<>> ELSE Concat(ss[1], ConcatAll(Tail(ss)))

\* the strings of at most n runs over the characters cs and run lengths ls
RECURSIVE StringsOf(_, _, _)
StringsOf(cs, ls, n) ==
    IF n = 0 THEN {<<>>}
    ELSE LET shorter == StringsOf(cs, ls, n - 1)
         IN  shorter \cup
             UNION { { <<r>> \o s : s \in {t \in shorter :
                                              /\ Len(t) = n - 1
                                              /\ (t = <<>> \/ t[1][1] # r[1])} }
                     : r \in cs \X ls }

\* ------------------------------------------------------------------------
\* splitTextIntoChunks
\* ------------------------------------------------------------------------

\* ChunkCut with the bug of resuming after the break character instead of at it
ChunkCutSkipBreak(txt, maxLen, from) ==
    LET end0        == IF from + maxLen > StrLen(txt) THEN StrLen(txt)
                       ELSE from + maxLen
        segment0    == Slice(txt, from, end0)
        lastNewline == LastIndexOf(segment0, "\n")
        lastSpace   == LastIndexOf(segment0, " ")
        cutIndex    == IF lastNewline > BreakThreshold THEN lastNewline ELSE lastSpace
    IN  IF end0 < StrLen(txt)
           /\ (lastNewline > BreakThreshold \/ lastSpace > BreakThreshold)
        THEN [segment |-> Slice(txt, from, from + cutIndex), end |-> from + cutIndex + 1]
        ELSE [segment |-> segment0, end |-> end0]

\* ChunkCut with the bug of a window one character too long
\* (end = start + maxLength + 1)
ChunkCutWideWindow(txt, maxLen, from) ==
    LET end0        == IF from + maxLen + 1 > StrLen(txt) THEN StrLen(txt)
                       ELSE from + maxLen + 1
        segment0    == Slice(txt, from, end0)
        lastNewline == LastIndexOf(segment0, "\n")
        lastSpace   == LastIndexOf(segment0, " ")
        cutIndex    == IF lastNewline > BreakThreshold THEN lastNewline ELSE lastSpace
    IN  IF end0 < StrLen(txt)
           /\ (lastNewline > BreakThreshold \/ lastSpace > BreakThreshold)
        THEN [segment |-> Slice(txt, from, from + cutIndex), end |-> from + cutIndex]
        ELSE [segment |-> segment0, end |-> end0]

\* ChunkCut with the bug of never looking for a break point
ChunkCutNoBreak(txt, maxLen, from) ==
    LET end0     == IF from + maxLen > StrLen(txt) THEN StrLen(txt)
                    ELSE from + maxLen
        segment0 == Slice(txt, from, end0)
    IN  [segment |-> segment0, end |-> end0]

\* ChunkCut with the bug of cutting at the rightmost break character, newline
\* or space alike
ChunkCutRightmostBreak(txt, maxLen, from) ==
    LET end0        == IF from + maxLen > StrLen(txt) THEN StrLen(txt)
                       ELSE from + maxLen
        segment0    == Slice(txt, from, end0)
        lastNewline == LastIndexOf(segment0, "\n")
        lastSpace   == LastIndexOf(segment0, " ")
        cutIndex    == Max(lastNewline, lastSpace)
    IN  IF end0 < StrLen(txt)
           /\ (lastNewline > BreakThreshold \/ lastSpace > BreakThreshold)
        THEN [segment |-> Slice(txt, from, from + cutIndex), end |-> from + cutIndex]
        ELSE [segment |-> segment0, end |-> end0]

\* One iteration of the while loop at scan position start: the segment pushed
\* (before trimming) and the position the next iteration starts from.
ChunkCut(txt, maxLen, from) ==
    LET end0        == IF from + maxLen > StrLen(txt) THEN StrLen(txt)
                       ELSE from + maxLen
        segment0    == Slice(txt, from, end0)
        lastNewline == LastIndexOf(segment0, "\n")
        lastSpace   == LastIndexOf(segment0, " ")
        cutIndex    == IF lastNewline > BreakThreshold THEN lastNewline ELSE lastSpace
    IN  IF end0 < StrLen(txt)
           /\ (lastNewline > BreakThreshold \/ lastSpace > BreakThreshold)
        THEN [segment |-> Slice(txt, from, from + cutIndex), end |-> from + cutIndex]
        ELSE [segment |-> segment0, end |-> end0]

\* PushedChunk with the bug of pushing the segment untrimmed
PushedChunkUntrimmed(segment) == segment

\* the element pushed for a segment: chunks.push(segment.trim())
PushedChunk(segment) == Trim(segment)

\* splitTextIntoChunks(text, maxLength), from scan position from with the chunks
\* acc already pushed
RECURSIVE SplitFrom(_, _, _, _)
SplitFrom(txt, maxLen, from, acc) ==
    IF from < StrLen(txt)
    THEN LET cut == ChunkCut(txt, maxLen, from)
         IN  SplitFrom(txt, maxLen, cut.end, Append(acc, PushedChunk(cut.segment)))
    ELSE acc

\* SplitTextIntoChunks with the bug of a loop whose body runs before its
\* condition is tested (do ... while)
SplitTextIntoChunksDoWhile(txt, maxLen) ==
    LET cut == ChunkCut(txt, maxLen, 0)
    IN  SplitFrom(txt, maxLen, cut.end, <<PushedChunk(cut.segment)>>)

\* splitTextIntoChunks(text, maxLength); maxLength >= 1, or the loop never ends
SplitTextIntoChunks(txt, maxLen) == SplitFrom(txt, maxLen, 0, <<>>)

\* ------------------------------------------------------------------------
\* Requests and collaborators
\* ------------------------------------------------------------------------

\* the requests followed; each is served by one invocation of a handler
Requests == {"r1", "r2"}

NoResponse == [status |-> 0]

\* the vector store namespace before anything is stored
EmptyIndex == [id \in {} |-> NoResponse]

\* ChunkId with the bug of counting the chunks from one
ChunkIdFromOne(k) == <<"chunk-", k + 1>>

\* the id of the record of chunk k: `chunk-${i}`
ChunkId(k) == <<"chunk-", k>>

\* no query was answered
NoMatches == [matches |-> <<>>]

\* no prompt was built
NoPrompt == <<>>

\* the payload of the end-of-stream event: `data: [DONE]\n\n`
Sentinel == "[DONE]"

\* the vector the embedding service returns for an input (an opaque function
\* of the input)
Embedding(input) == <<"embedding", input>>

\* ------------------------------------------------------------------------
\* State
\* ------------------------------------------------------------------------

VARIABLES
    \* one call of splitTextIntoChunks, followed iteration by iteration
    text,        \* the text argument
    maxLength,   \* the maxLength argument
    start,       \* the scan position
    chunks,      \* the chunks pushed so far (trimmed)
    segments,    \* history: the segments cut so far, before trimming
    starts,      \* history: the scan position of every iteration so far
    chunkPc,     \* "idle", "loop" or "returned"
    \* the upload handlers, one invocation per request
    uploadVariant, \* which handler serves the request: "express" or "next"
    uploadPc,      \* where the invocation stands (the await it is suspended at)
    extractedText, \* const extractedText
    textChunks,    \* const textChunks
    i,             \* the loop variable i
    vectors,       \* const vectors
    uploadRes,     \* the response sent: NoResponse, or status and JSON body
    index,         \* the vector store namespace "pdf-chatbot": id -> record
    embedInputs,   \* history: the input of every embedding request issued
    upsertCalls,   \* history: the vectors of every upsert call issued
    uploadFailedAt, \* history: the collaborator call that rejected, or "none"
    \* the chat handlers, one invocation
    chatVariant,   \* which handler serves the request
    chatPc,        \* where the invocation stands (the await or event it waits for)
    question,      \* req.query.question
    queryResponse, \* history: the answer of the vector store query
    messages,      \* the prompt given to the completion service, or NoPrompt
    res,           \* the events written to the response, in order (their payloads)
    resStatus,     \* the status of the response: 0 none yet, 200 stream, 400
    resEnded,      \* res.end() or res.send() was called
    calls,         \* history: the collaborator calls issued, in order
    received,      \* history: the deltas the completion service delivered
    upstreamDone,  \* the completion service has sent its own "data: [DONE]"
    failedAt,      \* history: the step that failed, or "none"
    clientGone,    \* the client has closed the connection of the chat request
    \* the chat client, one invocation of handleAskQuestion per question asked
    askPc,            \* where the invocation stands: "idle", "fetch", "read", "done", "failed"
    responseBody,     \* response.body: the part of the response not read yet
    produced,         \* history: the delta contents the completion service produced
    currentAnswerRef, \* currentAnswerRef.current, shared by the invocations
    msgs              \* the messages state (the chat history shown)

chunkVars == <<text, maxLength, start, chunks, segments, starts, chunkPc>>

uploadVars == <<uploadVariant, uploadPc, extractedText, textChunks, i, vectors,
                uploadRes, index, embedInputs, upsertCalls, uploadFailedAt>>

chatVars == <<chatVariant, chatPc, question, queryResponse, messages, res, resStatus,
              resEnded, calls, received, upstreamDone, failedAt, clientGone>>

clientVars == <<askPc, responseBody, produced, currentAnswerRef, msgs>>

vars == <<chunkVars, uploadVars, chatVars, clientVars>>

\* ------------------------------------------------------------------------
\* The chunker, iteration by iteration
\* ------------------------------------------------------------------------

Chars == {"a", " ", "\n"}

RunLens == {1, 200, 201, 205, 600}

Texts == StringsOf(Chars, RunLens, MaxRuns)

MaxLengths == {-1, 0, 1, 2, 201, 250, DefaultMaxLength}

ChunkIdle ==
    /\ text = EmptyStr
    /\ maxLength = DefaultMaxLength
    /\ start = 0
    /\ chunks = <<>>
    /\ segments = <<>>
    /\ starts = <<>>
    /\ chunkPc = "idle"

UploadIdle ==
    /\ uploadVariant = [r \in Requests |-> "express"]
    /\ uploadPc = [r \in Requests |-> "idle"]
    /\ extractedText = [r \in Requests |-> EmptyStr]
    /\ textChunks = [r \in Requests |-> <<>>]
    /\ i = [r \in Requests |-> 0]
    /\ vectors = [r \in Requests |-> <<>>]
    /\ uploadRes = [r \in Requests |-> NoResponse]
    /\ index = EmptyIndex
    /\ embedInputs = [r \in Requests |-> <<>>]
    /\ upsertCalls = [r \in Requests |-> <<>>]
    /\ uploadFailedAt = [r \in Requests |-> "none"]

ChatIdle ==
    /\ chatVariant = "express"
    /\ chatPc = "idle"
    /\ question = ""
    /\ queryResponse = NoMatches
    /\ messages = NoPrompt
    /\ res = <<>>
    /\ resStatus = 0
    /\ resEnded = FALSE
    /\ calls = <<>>
    /\ received = <<>>
    /\ upstreamDone = FALSE
    /\ failedAt = "none"
    /\ clientGone = FALSE

\* the questions the user asks, one invocation of handleAskQuestion each
Asks == {"a1", "a2"}

ClientIdle ==
    /\ askPc = [h \in Asks |-> "idle"]
    /\ responseBody = [h \in Asks |-> <<>>]
    /\ produced = [h \in Asks |-> <<>>]
    /\ currentAnswerRef = <<>>
    /\ msgs = <<>>

InitChunk ==
    /\ text \in Texts
    /\ maxLength \in MaxLengths
    /\ start = 0
    /\ chunks = <<>>
    /\ segments = <<>>
    /\ starts = <<>>
    /\ chunkPc = "loop"
    /\ UploadIdle
    /\ ChatIdle
    /\ ClientIdle

\* one iteration of the while loop
ChunkStep ==
    /\ chunkPc = "loop"
    /\ start < StrLen(text)
    /\ Len(chunks) < MaxIter
    /\ LET cut == ChunkCut(text, maxLength, start)
       IN  /\ chunks' = Append(chunks, PushedChunk(cut.segment))
           /\ segments' = Append(segments, cut.segment)
           /\ start' = cut.end
    /\ starts' = Append(starts, start)
    /\ UNCHANGED <<text, maxLength, chunkPc>>
    /\ UNCHANGED <<uploadVars, chatVars, clientVars>>

\* the loop condition fails: return chunks
ChunkReturn ==
    /\ chunkPc = "loop"
    /\ ~(start < StrLen(text))
    /\ chunkPc' = "returned"
    /\ UNCHANGED <<text, maxLength, start, chunks, segments, starts>>
    /\ UNCHANGED <<uploadVars, chatVars, clientVars>>

NextChunk == ChunkStep \/ ChunkReturn

SpecChunk == InitChunk /\ [][NextChunk]_vars

\* ------------------------------------------------------------------------
\* The upload handlers
\* ------------------------------------------------------------------------

UploadVariants == {"express", "next"}

DocChars == {"a", " "}

DocRunLens == {600, 1200}

\* the texts the extraction service returns
Documents == StringsOf(DocChars, DocRunLens, MaxDocRuns)

\* IsBlank with the bug of skipping no chunk
IsBlankNever(chunk) == FALSE

\* !chunk.trim()
IsBlank(chunk) == Trim(chunk) = EmptyStr

\* VectorOf with the bug of one-based ids
VectorOfOneBased(cs, k) ==
    [id |-> ChunkId(k + 1), values |-> Embedding(cs[k + 1]),
     metadata |-> [text |-> cs[k + 1]]]

\* VectorOf with the bug of numbering the records pushed (chunk-${vectors.length})
\* instead of the chunks
VectorOfRenumbered(cs, k) ==
    [id |-> ChunkId(Len(SelectSeq(SubSeq(cs, 1, k), LAMBDA c : Trim(c) # EmptyStr))),
     values |-> Embedding(cs[k + 1]), metadata |-> [text |-> cs[k + 1]]]

\* the record pushed for chunk k (zero-based) of cs
VectorOf(cs, k) ==
    [id |-> ChunkId(k), values |-> Embedding(cs[k + 1]), metadata |-> [text |-> cs[k + 1]]]

\* index.upsert({ vectors, namespace }): the store writes every record under
\* its id, replacing a record already stored under that id
Upsert(idx, vecs) ==
    LET ids == {vecs[k].id : k \in 1..Len(vecs)}
        last(id) == CHOOSE k \in 1..Len(vecs) :
                        /\ vecs[k].id = id
                        /\ \A j \in (k + 1)..Len(vecs) : vecs[j].id # id
    IN  [id \in DOMAIN idx \cup ids |->
            IF id \in ids THEN [values |-> vecs[last(id)].values,
                                 metadata |-> vecs[last(id)].metadata]
            ELSE idx[id]]

\* the first index at or after k (zero-based) of a chunk the loop does not skip,
\* or cs.length if there is none
RECURSIVE NextToEmbed(_, _)
NextToEmbed(cs, k) ==
    IF k < Len(cs) /\ IsBlank(cs[k + 1]) THEN NextToEmbed(cs, k + 1)
    ELSE Min(k, Len(cs))

\* Success with the bug of reporting the number of chunks embedded
\* (chunks: vectors.length)
SuccessCountsStored(cs) ==
    [status |-> 200, message |-> "PDF processed successfully",
     chunks |-> Len(SelectSeq(cs, LAMBDA c : ~IsBlank(c)))]

\* res.status(200).json({ message, chunks: textChunks.length })
Success(cs) == [status |-> 200, message |-> "PDF processed successfully", chunks |-> Len(cs)]

\* res.status(code).json({ error })
Failure(code, message) == [status |-> code, error |-> message]

\* RunLoop with the bug of calling upsert without testing vectors.length
RunLoopAlwaysUpserts(r, cs, k, vecs) ==
    LET j == NextToEmbed(cs, k)
    IN  /\ i' = [i EXCEPT ![r] = j]
        /\ vectors' = [vectors EXCEPT ![r] = vecs]
        /\ UNCHANGED uploadFailedAt
        /\ IF j < Len(cs)
           THEN /\ uploadPc' = [uploadPc EXCEPT ![r] = "embed"]
                /\ embedInputs' = [embedInputs EXCEPT ![r] = Append(@, cs[j + 1])]
                /\ UNCHANGED <<upsertCalls, uploadRes>>
           ELSE /\ uploadPc' = [uploadPc EXCEPT ![r] = "upsert"]
                /\ upsertCalls' = [upsertCalls EXCEPT ![r] = Append(@, vecs)]
                /\ UNCHANGED <<embedInputs, uploadRes>>

\* RunLoop with the bug of requesting the embedding of the following chunk
\* together with that of the current one, without awaiting the current one
RunLoopPrefetch(r, cs, k, vecs) ==
    LET j  == NextToEmbed(cs, k)
        j2 == NextToEmbed(cs, j + 1)
    IN  /\ i' = [i EXCEPT ![r] = j]
        /\ vectors' = [vectors EXCEPT ![r] = vecs]
        /\ UNCHANGED uploadFailedAt
        /\ IF j < Len(cs)
           THEN /\ uploadPc' = [uploadPc EXCEPT ![r] = "embed"]
                /\ embedInputs' =
                      [embedInputs EXCEPT ![r] =
                          IF j2 < Len(cs) THEN Append(Append(@, cs[j + 1]), cs[j2 + 1])
                          ELSE Append(@, cs[j + 1])]
                /\ UNCHANGED <<upsertCalls, uploadRes>>
           ELSE IF Len(vecs) > 0
           THEN /\ uploadPc' = [uploadPc EXCEPT ![r] = "upsert"]
                /\ upsertCalls' = [upsertCalls EXCEPT ![r] = Append(@, vecs)]
                /\ UNCHANGED <<embedInputs, uploadRes>>
           ELSE /\ uploadPc' = [uploadPc EXCEPT ![r] = "done"]
                /\ uploadRes' = [uploadRes EXCEPT ![r] = Success(cs)]
                /\ UNCHANGED <<embedInputs, upsertCalls>>

\* The for loop from i = k with the vectors vecs, up to the next await or the
\* response: skip blank chunks; request the embedding of the next chunk; after
\* the last chunk upsert the vectors if there are any, else answer at once.
RunLoop(r, cs, k, vecs) ==
    LET j == NextToEmbed(cs, k)
    IN  /\ i' = [i EXCEPT ![r] = j]
        /\ vectors' = [vectors EXCEPT ![r] = vecs]
        /\ UNCHANGED uploadFailedAt
        /\ IF j < Len(cs)
           THEN /\ uploadPc' = [uploadPc EXCEPT ![r] = "embed"]
                /\ embedInputs' = [embedInputs EXCEPT ![r] = Append(@, cs[j + 1])]
                /\ UNCHANGED <<upsertCalls, uploadRes>>
           ELSE IF Len(vecs) > 0
           THEN /\ uploadPc' = [uploadPc EXCEPT ![r] = "upsert"]
                /\ upsertCalls' = [upsertCalls EXCEPT ![r] = Append(@, vecs)]
                /\ UNCHANGED <<embedInputs, uploadRes>>
           ELSE /\ uploadPc' = [uploadPc EXCEPT ![r] = "done"]
                /\ uploadRes' = [uploadRes EXCEPT ![r] = Success(cs)]
                /\ UNCHANGED <<embedInputs, upsertCalls>>

\* a collaborator call rejects with message and the catch block answers:
\* res.status(500).json({ error: err.message })
Catch(r, message) ==
    /\ uploadFailedAt' = [uploadFailedAt EXCEPT ![r] = message]
    /\ uploadPc' = [uploadPc EXCEPT ![r] = "done"]
    /\ uploadRes' = [uploadRes EXCEPT ![r] = Failure(500, message)]

\* A request arrives: without a file it is answered 400; with one the handler
\* reads it and awaits the text extraction.
UploadArrive(r, variant, hasFile) ==
    /\ uploadPc[r] = "idle"
    /\ uploadVariant' = [uploadVariant EXCEPT ![r] = variant]
    /\ IF hasFile
       THEN /\ uploadPc' = [uploadPc EXCEPT ![r] = "extract"]
            /\ UNCHANGED uploadRes
       ELSE /\ uploadPc' = [uploadPc EXCEPT ![r] = "done"]
            /\ uploadRes' = [uploadRes EXCEPT ![r] = Failure(400, "No file uploaded")]
    /\ UNCHANGED <<extractedText, textChunks, i, vectors, index, embedInputs,
                   upsertCalls, uploadFailedAt>>
    /\ UNCHANGED <<chunkVars, chatVars, clientVars>>

\* The extraction resolves with the text doc: the handler chunks it; the express
\* handler takes the index of the global client (which throws when indexOk is
\* false) and enters the loop, the next-connect handler awaits pinecone.init.
UploadExtracted(r, doc, indexOk) ==
    /\ uploadPc[r] = "extract"
    /\ extractedText' = [extractedText EXCEPT ![r] = doc]
    /\ LET cs == SplitTextIntoChunks(doc, DefaultMaxLength)
       IN  /\ textChunks' = [textChunks EXCEPT ![r] = cs]
           /\ IF uploadVariant[r] = "next"
              THEN /\ uploadPc' = [uploadPc EXCEPT ![r] = "init"]
                   /\ UNCHANGED <<i, vectors, uploadRes, embedInputs, upsertCalls,
                                  uploadFailedAt>>
              ELSE IF indexOk
              THEN RunLoop(r, cs, 0, <<>>)
              ELSE /\ Catch(r, "pinecone")
                   /\ UNCHANGED <<i, vectors, embedInputs, upsertCalls>>
    /\ UNCHANGED <<uploadVariant, index>>
    /\ UNCHANGED <<chunkVars, chatVars, clientVars>>

\* the extraction rejects
UploadExtractFailed(r) ==
    /\ uploadPc[r] = "extract"
    /\ Catch(r, "extraction")
    /\ UNCHANGED <<uploadVariant, extractedText, textChunks, i, vectors, index,
                   embedInputs, upsertCalls>>
    /\ UNCHANGED <<chunkVars, chatVars, clientVars>>

\* pinecone.init resolves (next-connect handler): enter the loop
UploadInitDone(r) ==
    /\ uploadPc[r] = "init"
    /\ RunLoop(r, textChunks[r], 0, <<>>)
    /\ UNCHANGED <<uploadVariant, extractedText, textChunks, index>>
    /\ UNCHANGED <<chunkVars, chatVars, clientVars>>

\* pinecone.init rejects (next-connect handler)
UploadInitFailed(r) ==
    /\ uploadPc[r] = "init"
    /\ Catch(r, "pinecone")
    /\ UNCHANGED <<uploadVariant, extractedText, textChunks, i, vectors, index,
                   embedInputs, upsertCalls>>
    /\ UNCHANGED <<chunkVars, chatVars, clientVars>>

\* UploadEmbedded with the bug of upserting each record as soon as it is embedded
UploadEmbeddedUpsertsEach(r) ==
    /\ uploadPc[r] = "embed"
    /\ RunLoop(r, textChunks[r], i[r] + 1,
               Append(vectors[r], VectorOf(textChunks[r], i[r])))
    /\ index' = Upsert(index, <<VectorOf(textChunks[r], i[r])>>)
    /\ UNCHANGED <<uploadVariant, extractedText, textChunks>>
    /\ UNCHANGED <<chunkVars, chatVars, clientVars>>

\* the embedding request for chunk i resolves: push its record, go on with i + 1
UploadEmbedded(r) ==
    /\ uploadPc[r] = "embed"
    /\ RunLoop(r, textChunks[r], i[r] + 1,
               Append(vectors[r], VectorOf(textChunks[r], i[r])))
    /\ UNCHANGED <<uploadVariant, extractedText, textChunks, index>>
    /\ UNCHANGED <<chunkVars, chatVars, clientVars>>

\* UploadEmbedFailed with the bug of swallowing the error and going on with the
\* next chunk
UploadEmbedFailedContinues(r) ==
    /\ uploadPc[r] = "embed"
    /\ LET cs == textChunks[r]
           j  == NextToEmbed(cs, i[r] + 1)
       IN  /\ i' = [i EXCEPT ![r] = j]
           /\ uploadFailedAt' = [uploadFailedAt EXCEPT ![r] = "embedding"]
           /\ IF j < Len(cs)
              THEN /\ embedInputs' = [embedInputs EXCEPT ![r] = Append(@, cs[j + 1])]
                   /\ UNCHANGED <<uploadPc, upsertCalls, uploadRes>>
              ELSE IF Len(vectors[r]) > 0
              THEN /\ uploadPc' = [uploadPc EXCEPT ![r] = "upsert"]
                   /\ upsertCalls' = [upsertCalls EXCEPT ![r] = Append(@, vectors[r])]
                   /\ UNCHANGED <<embedInputs, uploadRes>>
              ELSE /\ uploadPc' = [uploadPc EXCEPT ![r] = "done"]
                   /\ uploadRes' = [uploadRes EXCEPT ![r] = Success(cs)]
                   /\ UNCHANGED <<embedInputs, upsertCalls>>
    /\ UNCHANGED vectors
    /\ UNCHANGED <<uploadVariant, extractedText, textChunks, index>>
    /\ UNCHANGED <<chunkVars, chatVars, clientVars>>

\* UploadEmbedFailed with the bug of a partial commit: the records embedded
\* before the failure are upserted before the error is answered
UploadEmbedFailedCommitsPartial(r) ==
    /\ uploadPc[r] = "embed"
    /\ Catch(r, "embedding")
    /\ index' = Upsert(index, vectors[r])
    /\ UNCHANGED <<uploadVariant, extractedText, textChunks, i, vectors,
                   embedInputs, upsertCalls>>
    /\ UNCHANGED <<chunkVars, chatVars, clientVars>>

\* the embedding request for chunk i rejects
UploadEmbedFailed(r) ==
    /\ uploadPc[r] = "embed"
    /\ Catch(r, "embedding")
    /\ UNCHANGED <<uploadVariant, extractedText, textChunks, i, vectors, index,
                   embedInputs, upsertCalls>>
    /\ UNCHANGED <<chunkVars, chatVars, clientVars>>

\* UploadUpserted with the bug of clearing the namespace before writing the batch
UploadUpsertedReplacesAll(r) ==
    /\ uploadPc[r] = "upsert"
    /\ index' = Upsert(EmptyIndex, vectors[r])
    /\ uploadPc' = [uploadPc EXCEPT ![r] = "done"]
    /\ uploadRes' = [uploadRes EXCEPT ![r] = Success(textChunks[r])]
    /\ UNCHANGED <<uploadVariant, extractedText, textChunks, i, vectors,
                   embedInputs, upsertCalls, uploadFailedAt>>
    /\ UNCHANGED <<chunkVars, chatVars, clientVars>>

\* the upsert resolves, the store having written the batch: answer 200
UploadUpserted(r) ==
    /\ uploadPc[r] = "upsert"
    /\ index' = Upsert(index, vectors[r])
    /\ uploadPc' = [uploadPc EXCEPT ![r] = "done"]
    /\ uploadRes' = [uploadRes EXCEPT ![r] = Success(textChunks[r])]
    /\ UNCHANGED <<uploadVariant, extractedText, textChunks, i, vectors,
                   embedInputs, upsertCalls, uploadFailedAt>>
    /\ UNCHANGED <<chunkVars, chatVars, clientVars>>

\* the upsert rejects, the store having written nothing
UploadUpsertFailed(r) ==
    /\ uploadPc[r] = "upsert"
    /\ Catch(r, "upsert")
    /\ UNCHANGED <<uploadVariant, extractedText, textChunks, i, vectors, index,
                   embedInputs, upsertCalls>>
    /\ UNCHANGED <<chunkVars, chatVars, clientVars>>

InitUpload == ChunkIdle /\ UploadIdle /\ ChatIdle /\ ClientIdle

NextUpload ==
    \E r \in Requests :
        \/ \E variant \in UploadVariants, hasFile \in BOOLEAN :
               UploadArrive(r, variant, hasFile)
        \/ \E doc \in Documents, indexOk \in BOOLEAN : UploadExtracted(r, doc, indexOk)
        \/ UploadExtractFailed(r)
        \/ UploadInitDone(r)
        \/ UploadInitFailed(r)
        \/ UploadEmbedded(r)
        \/ UploadEmbedFailed(r)
        \/ UploadUpserted(r)
        \/ UploadUpsertFailed(r)

SpecUpload == InitUpload /\ [][NextUpload]_vars

\* ------------------------------------------------------------------------
\* The chat handlers
\* ------------------------------------------------------------------------

\* "express":   app.get('/chat') of the express servers (for await over the stream)
\* "next":      the Next.js handler that skips blank lines of a data chunk
\* "blankDone": the Next.js handler that answers a blank line with the sentinel
ChatVariants == {"express", "next", "blankDone"}

Questions == {"", "q"}

\* delta.content of a part: "" stands for an absent or empty content
Contents == {"", "x", "y"}

\* the deltas of the completion service: content and whether a finish reason is set
Deltas == [content : Contents, finish : BOOLEAN]

\* the events of the completion service's own SSE stream: a delta, or its
\* closing "data: [DONE]"
UpstreamDone == [done |-> TRUE]

UpstreamEvents == Deltas \cup {UpstreamDone}

\* match.metadata?.text of a match: EmptyStr stands for a match without text
MatchTexts == {EmptyStr, << <<"a", 1>> >>, << <<" ", 1>> >>}

RECURSIVE SeqsUpTo(_, _)
SeqsUpTo(S, n) ==
    IF n = 0 THEN {<<>>}
    ELSE LET shorter == SeqsUpTo(S, n - 1)
         IN  shorter \cup {Append(q, x) : q \in {t \in shorter : Len(t) = n - 1}, x \in S}

\* the answers of index.query({ topK: 5, ... }).matches
MatchLists == SeqsUpTo([text : MatchTexts], Min(MaxMatches, TopK))

\* the sentence used when no context was found
Placeholder(variant) ==
    IF variant = "next" THEN << <<"No relevant text found.", 1>> >>
    ELSE << <<"The document is empty or not relevant.", 1>> >>

\* ContextOf with the bug of prepending each text (the matches in reverse order)
RECURSIVE ContextOfReversed(_)
ContextOfReversed(matches) ==
    IF matches = <<>> THEN EmptyStr
    ELSE IF matches[1].text # EmptyStr
    THEN Concat(ContextOfReversed(Tail(matches)),
                Concat(matches[1].text, << <<"\n", 1>> >>))
    ELSE ContextOfReversed(Tail(matches))

\* the loop over matches: contextText += match.metadata.text + "\n"
RECURSIVE ContextOf(_)
ContextOf(matches) ==
    IF matches = <<>> THEN EmptyStr
    ELSE IF matches[Len(matches)].text # EmptyStr
    THEN Concat(ContextOf(SubSeq(matches, 1, Len(matches) - 1)),
                Concat(matches[Len(matches)].text, << <<"\n", 1>> >>))
    ELSE ContextOf(SubSeq(matches, 1, Len(matches) - 1))

\* contextText after the placeholder substitution
ContextText(variant, matches) ==
    IF Trim(ContextOf(matches)) = EmptyStr THEN Placeholder(variant)
    ELSE ContextOf(matches)

\* const messages = [system instruction, user message with context and question]
Messages(context, q) ==
    << [role |-> "system"],
       [role |-> "user", context |-> context, question |-> q] >>

\* the data chunks the transport delivers: whole events, the closing
\* "data: [DONE]" only as the last event of a chunk
DataChunks ==
    {c \in SeqsUpTo(UpstreamEvents, MaxChunkEvents) :
        /\ c # <<>>
        /\ \A k \in 1..(Len(c) - 1) : c[k] # UpstreamDone}

\* payload.split('\n') for the payload "data: e1\n\ndata: e2\n\n...": every
\* event line is followed by an empty line, and one more empty line ends the list
RECURSIVE EventLines(_)
EventLines(events) ==
    IF events = <<>> THEN <<>>
    ELSE << [kind |-> IF events[1] = UpstreamDone THEN "done" ELSE "data",
             event |-> events[1]],
            [kind |-> "blank", event |-> UpstreamDone] >> \o EventLines(Tail(events))

SplitLines(events) == Append(EventLines(events), [kind |-> "blank", event |-> UpstreamDone])

\* the deltas among the events of a chunk
RECURSIVE DeltasOf(_)
DeltasOf(events) ==
    IF events = <<>> THEN <<>>
    ELSE IF events[1] = UpstreamDone THEN DeltasOf(Tail(events))
    ELSE <<events[1]>> \o DeltasOf(Tail(events))

\* The 'data' listener's loop over the lines of one chunk: the payloads it
\* writes, in order.  "next" skips an empty line; "blankDone" answers an empty
\* line like "data: [DONE]": it writes the sentinel and returns.
RECURSIVE OnDataLines(_, _)
OnDataLines(variant, lines) ==
    IF lines = <<>> THEN <<>>
    ELSE LET line == lines[1]
         IN  IF line.kind = "blank"
             THEN IF variant = "blankDone" THEN <<Sentinel>>
                  ELSE OnDataLines(variant, Tail(lines))
             ELSE IF line.kind = "done" THEN <<Sentinel>>
             ELSE (IF line.event.content # "" THEN <<line.event.content>> ELSE <<>>)
                  \o OnDataLines(variant, Tail(lines))

\* EndStream with the bug of ending the response without the sentinel
EndStreamNoSentinel ==
    /\ res' = res
    /\ resEnded' = TRUE
    /\ chatPc' = "done"

\* res.write(`data: [DONE]\n\n`); res.end(): the catch block, the end of the
\* express handler's try block, and the 'end' and 'error' listeners
EndStream ==
    /\ res' = Append(res, Sentinel)
    /\ resEnded' = TRUE
    /\ chatPc' = "done"

\* ChatCatch with the bug of reporting the error as an event of its own
ChatCatchReportsError(step) ==
    /\ res' = res \o <<"error", Sentinel>>
    /\ resEnded' = TRUE
    /\ chatPc' = "done"
    /\ failedAt' = step

\* the catch block of the handler, entered from the failing step
ChatCatch(step) ==
    /\ EndStream
    /\ failedAt' = step

\* ChatArrive with the bug of not testing the question
ChatArriveNoValidation(variant, q) ==
    /\ chatPc = "idle"
    /\ chatVariant' = variant
    /\ question' = q
    /\ resStatus' = 200
    /\ resEnded' = FALSE
    /\ IF variant = "express"
       THEN chatPc' = "embed" /\ calls' = Append(calls, "embed")
       ELSE chatPc' = "init" /\ calls' = Append(calls, "init")
    /\ UNCHANGED <<clientGone, queryResponse, messages, res, received, upstreamDone, failedAt>>
    /\ UNCHANGED <<chunkVars, uploadVars, clientVars>>

\* A GET /chat request arrives.  Without a question it is answered 400.  With
\* one the SSE headers are sent; the express handler requests the question's
\* embedding, the Next.js handlers first await pinecone.init.
ChatArrive(variant, q) ==
    /\ chatPc = "idle"
    /\ chatVariant' = variant
    /\ question' = q
    /\ IF q = ""
       THEN /\ resStatus' = 400
            /\ resEnded' = TRUE
            /\ chatPc' = "rejected"
            /\ UNCHANGED calls
       ELSE /\ resStatus' = 200
            /\ resEnded' = FALSE
            /\ IF variant = "express"
               THEN chatPc' = "embed" /\ calls' = Append(calls, "embed")
               ELSE chatPc' = "init" /\ calls' = Append(calls, "init")
    /\ UNCHANGED <<clientGone, queryResponse, messages, res, received, upstreamDone, failedAt>>
    /\ UNCHANGED <<chunkVars, uploadVars, clientVars>>

\* pinecone.init resolves: request the question's embedding
ChatInitDone ==
    /\ chatPc = "init"
    /\ chatPc' = "embed"
    /\ calls' = Append(calls, "embed")
    /\ UNCHANGED <<clientGone, chatVariant, question, queryResponse, messages, res, resStatus, resEnded,
                   received, upstreamDone, failedAt>>
    /\ UNCHANGED <<chunkVars, uploadVars, clientVars>>

\* pinecone.init rejects
ChatInitFailed ==
    /\ chatPc = "init"
    /\ ChatCatch("init")
    /\ UNCHANGED <<clientGone, chatVariant, question, queryResponse, messages, resStatus, calls, received,
                   upstreamDone>>
    /\ UNCHANGED <<chunkVars, uploadVars, clientVars>>

\* the embedding resolves: query the vector store
ChatEmbedded ==
    /\ chatPc = "embed"
    /\ chatPc' = "query"
    /\ calls' = Append(calls, "query")
    /\ UNCHANGED <<clientGone, chatVariant, question, queryResponse, messages, res, resStatus, resEnded,
                   received, upstreamDone, failedAt>>
    /\ UNCHANGED <<chunkVars, uploadVars, clientVars>>

\* the embedding rejects
ChatEmbedFailed ==
    /\ chatPc = "embed"
    /\ ChatCatch("embed")
    /\ UNCHANGED <<clientGone, chatVariant, question, queryResponse, messages, resStatus, calls, received,
                   upstreamDone>>
    /\ UNCHANGED <<chunkVars, uploadVars, clientVars>>

\* the query resolves with matches: build the context and the prompt, start the
\* streamed completion
ChatQueried(matches) ==
    /\ chatPc = "query"
    /\ queryResponse' = [matches |-> matches]
    /\ messages' = Messages(ContextText(chatVariant, matches), question)
    /\ chatPc' = "complete"
    /\ calls' = Append(calls, "complete")
    /\ UNCHANGED <<clientGone, chatVariant, question, res, resStatus, resEnded, received,
                   upstreamDone, failedAt>>
    /\ UNCHANGED <<chunkVars, uploadVars, clientVars>>

\* the query rejects
ChatQueryFailed ==
    /\ chatPc = "query"
    /\ ChatCatch("query")
    /\ UNCHANGED <<clientGone, chatVariant, question, queryResponse, messages, resStatus, calls, received,
                   upstreamDone>>
    /\ UNCHANGED <<chunkVars, uploadVars, clientVars>>

\* the completion call resolves with a stream: the express handler starts
\* iterating it, the Next.js handlers register their listeners
ChatCompletionStarted ==
    /\ chatPc = "complete"
    /\ chatPc' = "stream"
    /\ UNCHANGED <<clientGone, chatVariant, question, queryResponse, messages, res, resStatus, resEnded, calls,
                   received, upstreamDone, failedAt>>
    /\ UNCHANGED <<chunkVars, uploadVars, clientVars>>

\* the completion call rejects
ChatCompletionFailed ==
    /\ chatPc = "complete"
    /\ ChatCatch("complete")
    /\ UNCHANGED <<clientGone, chatVariant, question, queryResponse, messages, resStatus, calls, received,
                   upstreamDone>>
    /\ UNCHANGED <<chunkVars, uploadVars, clientVars>>

\* One iteration of the express handler's for await loop: write the content if
\* there is any; on a finish reason break, write the sentinel and end.
ExpressPart(part) ==
    /\ chatPc = "stream"
    /\ chatVariant = "express"
    /\ Len(received) < MaxParts
    /\ received' = Append(received, part)
    /\ LET written == IF part.content # "" THEN Append(res, part.content) ELSE res
       IN  IF part.finish
           THEN /\ res' = Append(written, Sentinel)
                /\ resEnded' = TRUE
                /\ chatPc' = "done"
           ELSE /\ res' = written
                /\ UNCHANGED <<resEnded, chatPc>>
    /\ UNCHANGED <<clientGone, chatVariant, question, queryResponse, messages, resStatus, calls, upstreamDone,
                   failedAt>>
    /\ UNCHANGED <<chunkVars, uploadVars, clientVars>>

\* the express handler's stream is exhausted: write the sentinel and end
ExpressStreamEnd ==
    /\ chatPc = "stream"
    /\ chatVariant = "express"
    /\ EndStream
    /\ UNCHANGED <<clientGone, chatVariant, question, queryResponse, messages, resStatus, calls, received,
                   upstreamDone, failedAt>>
    /\ UNCHANGED <<chunkVars, uploadVars, clientVars>>

\* the express handler's stream throws: the catch block
ExpressStreamError ==
    /\ chatPc = "stream"
    /\ chatVariant = "express"
    /\ ChatCatch("stream")
    /\ UNCHANGED <<clientGone, chatVariant, question, queryResponse, messages, resStatus, calls, received,
                   upstreamDone>>
    /\ UNCHANGED <<chunkVars, uploadVars, clientVars>>

\* the 'data' listener of the Next.js handlers, for one chunk of whole events
NextData(events) ==
    /\ chatPc = "stream"
    /\ chatVariant # "express"
    /\ ~upstreamDone
    /\ Len(received) + Len(DeltasOf(events)) <= MaxParts
    /\ received' = received \o DeltasOf(events)
    /\ upstreamDone' = (events[Len(events)] = UpstreamDone)
    /\ res' = res \o OnDataLines(chatVariant, SplitLines(events))
    /\ UNCHANGED <<clientGone, chatVariant, chatPc, question, queryResponse, messages, resStatus, resEnded, calls,
                   failedAt>>
    /\ UNCHANGED <<chunkVars, uploadVars, clientVars>>

\* the 'end' listener of the Next.js handlers
NextEnd ==
    /\ chatPc = "stream"
    /\ chatVariant # "express"
    /\ EndStream
    /\ UNCHANGED <<clientGone, chatVariant, question, queryResponse, messages, resStatus, calls, received,
                   upstreamDone, failedAt>>
    /\ UNCHANGED <<chunkVars, uploadVars, clientVars>>

\* the 'error' listener of the Next.js handlers
NextError ==
    /\ chatPc = "stream"
    /\ chatVariant # "express"
    /\ EndStream
    /\ failedAt' = "stream"
    /\ UNCHANGED <<clientGone, chatVariant, question, queryResponse, messages, resStatus, calls, received,
                   upstreamDone>>
    /\ UNCHANGED <<chunkVars, uploadVars, clientVars>>

\* The client closes the connection while the answer is streaming.  No handler
\* registers a listener for it (there is no req.on('close')), so no handler
\* code runs: the handler's state is as it was.
ClientAbandon ==
    /\ chatPc = "stream"
    /\ resStatus = 200
    /\ ~resEnded
    /\ ~clientGone
    /\ clientGone' = TRUE
    /\ UNCHANGED <<chatVariant, chatPc, question, queryResponse, messages, res,
                   resStatus, resEnded, calls, received, upstreamDone, failedAt>>
    /\ UNCHANGED <<chunkVars, uploadVars, clientVars>>

InitChat == ChunkIdle /\ UploadIdle /\ ChatIdle /\ ClientIdle

NextChat ==
    \/ \E variant \in ChatVariants, q \in Questions : ChatArrive(variant, q)
    \/ ChatInitDone
    \/ ChatInitFailed
    \/ ChatEmbedded
    \/ ChatEmbedFailed
    \/ \E matches \in MatchLists : ChatQueried(matches)
    \/ ChatQueryFailed
    \/ ChatCompletionStarted
    \/ ChatCompletionFailed
    \/ \E part \in Deltas : ExpressPart(part)
    \/ ExpressStreamEnd
    \/ ExpressStreamError
    \/ \E events \in DataChunks : NextData(events)
    \/ NextEnd
    \/ NextError

SpecChat == InitChat /\ [][NextChat]_vars

\* Every collaborator call settles and every stream ends: a handler that can
\* take a step eventually takes one.
FairSpecChat == SpecChat /\ WF_vars(NextChat)

\* the chat handlers with a client that may close the connection while the
\* answer is streaming
NextChatAbandon == NextChat \/ ClientAbandon

SpecChatAbandon == InitChat /\ [][NextChatAbandon]_vars

\* ------------------------------------------------------------------------
\* The chat client
\* ------------------------------------------------------------------------

\* A text of the response stream is a sequence of pieces; a piece is a run of
\* characters that the transport delivers whole.  'data: ' and '[DONE]' are two
\* pieces each, so that a read can end inside them.

\* 'data: '
Prefix == <<"dat", "a: ">>

\* '[DONE]'
DoneText == <<"[DO", "NE]">>

\* the contents of the deltas the completion service produces for a question:
\* none, a word, a line break, the text '[DONE]'; the second question's word
\* differs from the first one's
DeltaContents(h) ==
    IF h = "a1" THEN {<<>>, <<"x">>, <<"\n">>, DoneText} ELSE {<<"y">>}

DeltaLists(h) == SeqsUpTo(DeltaContents(h), MaxDeltas)

\* res.write(`data: ${content}\n\n`)
Event(content) == Prefix \o content \o <<"\n", "\n">>

\* the body of the response of the express handler when the completion service
\* produces the deltas ds: an event for every non-empty content, then the
\* sentinel event
RECURSIVE Body(_)
Body(ds) ==
    IF ds = <<>> THEN Event(DoneText)
    ELSE (IF ds[1] # <<>> THEN Event(ds[1]) ELSE <<>>) \o Body(Tail(ds))

\* chunk.split('\n')
RECURSIVE SplitNewline(_)
SplitNewline(chunk) ==
    IF \E k \in 1..Len(chunk) : chunk[k] = "\n"
    THEN LET at == CHOOSE k \in 1..Len(chunk) :
                       /\ chunk[k] = "\n"
                       /\ \A j \in 1..(k - 1) : chunk[j] # "\n"
         IN  <<SubSeq(chunk, 1, at - 1)>> \o SplitNewline(SubSeq(chunk, at + 1, Len(chunk)))
    ELSE <<chunk>>

\* line.startsWith('data: ')
StartsWithPrefix(line) == Len(line) >= Len(Prefix) /\ SubSeq(line, 1, Len(Prefix)) = Prefix

\* The loop over the lines of one chunk, acc being what it has appended so far:
\* the text it appends to currentAnswerRef.current and whether it saw [DONE].
RECURSIVE OnLines(_, _)
OnLines(lines, acc) ==
    IF lines = <<>> THEN [text |-> acc, done |-> FALSE]
    ELSE IF StartsWithPrefix(lines[1])
    THEN LET data == SubSeq(lines[1], Len(Prefix) + 1, Len(lines[1]))
         IN  IF data = DoneText THEN [text |-> acc, done |-> TRUE]
             ELSE OnLines(Tail(lines), acc \o data)
    ELSE OnLines(Tail(lines), acc)

\* setMessages((msgs) => [...msgs, { role: 'assistant', text: currentAnswerRef.current }])
AssistantMessage(h, answer) == [role |-> "assistant", ask |-> h, text |-> answer]

\* The user submits a question: the question is appended to the history, the
\* shared answer is reset and the response is fetched.
HandleAskQuestion(h) ==
    /\ askPc[h] = "idle"
    /\ msgs' = Append(msgs, [role |-> "user", ask |-> h, text |-> <<h>>])
    /\ currentAnswerRef' = <<>>
    /\ askPc' = [askPc EXCEPT ![h] = "fetch"]
    /\ UNCHANGED <<responseBody, produced>>
    /\ UNCHANGED <<chunkVars, uploadVars, chatVars>>

\* fetch resolves: the completion service produces the deltas ds for the
\* question, the handler's response is their event stream; the loop starts
FetchResolved(h, ds) ==
    /\ askPc[h] = "fetch"
    /\ produced' = [produced EXCEPT ![h] = ds]
    /\ responseBody' = [responseBody EXCEPT ![h] = Body(ds)]
    /\ askPc' = [askPc EXCEPT ![h] = "read"]
    /\ UNCHANGED <<currentAnswerRef, msgs>>
    /\ UNCHANGED <<chunkVars, uploadVars, chatVars>>

\* fetch rejects: the catch block reports the error, no message is appended
FetchFailed(h) ==
    /\ askPc[h] = "fetch"
    /\ askPc' = [askPc EXCEPT ![h] = "failed"]
    /\ UNCHANGED <<responseBody, produced, currentAnswerRef, msgs>>
    /\ UNCHANGED <<chunkVars, uploadVars, chatVars>>

\* reader.read() resolves with the next n pieces of the body: the loop over
\* its lines appends to the shared answer; on [DONE] the loop ends and the
\* answer is appended to the history.
ReadResolved(h, n) ==
    /\ askPc[h] = "read"
    /\ n \in 1..Len(responseBody[h])
    /\ LET chunk  == SubSeq(responseBody[h], 1, n)
           out    == OnLines(SplitNewline(chunk), <<>>)
           answer == currentAnswerRef \o out.text
       IN  /\ currentAnswerRef' = answer
           /\ IF out.done
              THEN /\ msgs' = Append(msgs, AssistantMessage(h, answer))
                   /\ askPc' = [askPc EXCEPT ![h] = "done"]
              ELSE UNCHANGED <<msgs, askPc>>
    /\ responseBody' = [responseBody EXCEPT ![h] = SubSeq(@, n + 1, Len(@))]
    /\ UNCHANGED produced
    /\ UNCHANGED <<chunkVars, uploadVars, chatVars>>

\* reader.read() resolves with done: true (the body is exhausted): the loop
\* ends and the answer is appended to the history
ReadDone(h) ==
    /\ askPc[h] = "read"
    /\ responseBody[h] = <<>>
    /\ msgs' = Append(msgs, AssistantMessage(h, currentAnswerRef))
    /\ askPc' = [askPc EXCEPT ![h] = "done"]
    /\ UNCHANGED <<responseBody, produced, currentAnswerRef>>
    /\ UNCHANGED <<chunkVars, uploadVars, chatVars>>

InitClient == ChunkIdle /\ UploadIdle /\ ChatIdle /\ ClientIdle

NextClient ==
    \E h \in Asks :
        \/ HandleAskQuestion(h)
        \/ \E ds \in DeltaLists(h) : FetchResolved(h, ds)
        \/ FetchFailed(h)
        \/ \E n \in 1..Len(responseBody[h]) : ReadResolved(h, n)
        \/ ReadDone(h)

SpecClient == InitClient /\ [][NextClient]_vars

\* ------------------------------------------------------------------------
\* Properties
\* ------------------------------------------------------------------------

\* does the sequence p begin the sequence q
IsPrefix(p, q) == Len(p) <= Len(q) /\ SubSeq(q, 1, Len(p)) = p

\* the sentinel events among the events es
RECURSIVE Sentinels(_)
Sentinels(es) ==
    IF es = <<>> THEN <<>>
    ELSE (IF es[1] = Sentinel THEN <<es[1]>> ELSE <<>>) \o Sentinels(Tail(es))

\* the events among es that are not the sentinel
RECURSIVE Fragments(_)
Fragments(es) ==
    IF es = <<>> THEN <<>>
    ELSE (IF es[1] # Sentinel THEN <<es[1]>> ELSE <<>>) \o Fragments(Tail(es))

\* the request was accepted: it carried a question and the stream was opened
Accepted == resStatus = 200

\* the number of sentinel events written to the response
SentinelCount == Len(Sentinels(res))

\* the text-fragment events written to the response
TextEvents == Fragments(res)

\* the deltas up to and including the first one that carries a finish reason
RECURSIVE UpToFinish(_)
UpToFinish(ds) ==
    IF ds = <<>> THEN <<>>
    ELSE IF ds[1].finish THEN <<ds[1]>>
    ELSE <<ds[1]>> \o UpToFinish(Tail(ds))

\* the non-empty contents of a sequence of deltas
RECURSIVE ContentsOf(_)
ContentsOf(ds) ==
    IF ds = <<>> THEN <<>>
    ELSE (IF ds[1].content # "" THEN <<ds[1].content>> ELSE <<>>) \o ContentsOf(Tail(ds))

\* C1: every accepted chat request eventually has the [DONE] sentinel written
\* as the last event of its response and the response ended, the handler having
\* completed, whichever step succeeds or fails and whatever the query returns.
C1_SentinelEventually ==
    Accepted ~> (/\ chatPc = "done"
                 /\ resEnded
                 /\ res # <<>>
                 /\ res[Len(res)] = Sentinel)

\* C1 witness: the query returned no usable match (the prompt carries the
\* placeholder), the relay failed after a text fragment, and the response still
\* ended with the sentinel.
C1_Witness ==
    /\ chatPc = "done"
    /\ messages # NoPrompt
    /\ messages[2].context = Placeholder(chatVariant)
    /\ failedAt = "stream"
    /\ Len(res) >= 2
    /\ res[Len(res)] = Sentinel
    /\ resEnded

\* the end of the segment cut by iteration k: where iteration k + 1 started
SegmentEnd(k) == IF k < Len(starts) THEN starts[k + 1] ELSE start

\* C2: for maxLength >= 1 the segments cut before trimming are contiguous,
\* non-overlapping slices of the text in order: the first starts at 0, each is
\* the slice from its start to the start of the next, their concatenation is
\* the text scanned so far, and on return the whole text; each chunk is its
\* segment trimmed.
C2_SegmentsContiguous ==
    maxLength >= 1 =>
        /\ Len(starts) = Len(segments)
        /\ Len(chunks) = Len(segments)
        /\ segments # <<>> => starts[1] = 0
        /\ \A k \in 1..Len(segments) :
              /\ starts[k] <= SegmentEnd(k)
              /\ segments[k] = Slice(text, starts[k], SegmentEnd(k))
              /\ chunks[k] = Trim(segments[k])
        /\ ConcatAll(segments) = Slice(text, 0, start)
        /\ chunkPc = "returned" => ConcatAll(segments) = text

\* C2 witness: a returned call that cut at a break character (a segment other
\* than the last shorter than maxLength) and trimmed whitespace off a chunk.
C2_Witness ==
    /\ chunkPc = "returned"
    /\ maxLength >= 1
    /\ \E k \in 1..(Len(segments) - 1) : StrLen(segments[k]) < maxLength
    /\ \E k \in 1..Len(segments) : chunks[k] # segments[k]

\* C3: every record in the vector store namespace has a metadata text that is
\* non-empty and equal to its own trim, and no embedding request was issued
\* with a blank input.
C3_StoredTextNonBlank ==
    /\ \A id \in DOMAIN index :
          /\ index[id].metadata.text # EmptyStr
          /\ Trim(index[id].metadata.text) = index[id].metadata.text
    /\ \A r \in Requests : \A k \in 1..Len(embedInputs[r]) :
          Trim(embedInputs[r][k]) # EmptyStr

\* C3 witness: an ingestion with a blank chunk among its chunks succeeded and
\* stored records, and another ingestion failed.
C3_Witness ==
    /\ index # EmptyIndex
    /\ \E r \in Requests :
          /\ uploadRes[r].status = 200
          /\ vectors[r] # <<>>
          /\ \E k \in 1..Len(textChunks[r]) : Trim(textChunks[r][k]) = EmptyStr
    /\ \E r \in Requests : uploadRes[r].status = 500

\* the records an ingestion of the chunks cs, none of them blank, must upsert
ExpectedBatch(cs) ==
    [k \in 1..Len(cs) |->
        [id |-> <<"chunk-", k - 1>>,
         values |-> Embedding(cs[k]),
         metadata |-> [text |-> cs[k]]]]

AllNonBlank(cs) == \A k \in 1..Len(cs) : Trim(cs[k]) # EmptyStr

\* C4: a successful ingestion of a document with n >= 1 chunks, all non-blank,
\* made exactly one upsert call, carrying n records with ids chunk-0 .. chunk-(n-1)
\* in chunk order, each with its chunk's text as metadata.
C4_OneUpsertSequentialIds ==
    \A r \in Requests :
        (/\ uploadRes[r].status = 200
         /\ Len(textChunks[r]) >= 1
         /\ AllNonBlank(textChunks[r]))
        => upsertCalls[r] = <<ExpectedBatch(textChunks[r])>>

\* C4 witness: a successful ingestion of a document with three or more chunks,
\* all non-blank.
C4_Witness ==
    \E r \in Requests :
        /\ uploadRes[r].status = 200
        /\ Len(textChunks[r]) >= 3
        /\ AllNonBlank(textChunks[r])

\* the number of non-blank chunks among the first n of cs
RECURSIVE NonBlankAmong(_, _)
NonBlankAmong(cs, n) ==
    IF n = 0 THEN 0
    ELSE NonBlankAmong(cs, n - 1) + (IF Trim(cs[n]) # EmptyStr THEN 1 ELSE 0)

\* C5: when the embedding request of chunk i fails the ingestion is over: the
\* answer is 500 with the error message, the failed request was the last one
\* issued and was issued once (one request per non-blank chunk up to i, none
\* for a later chunk), and no upsert call is made.
C5_EmbeddingFailureAborts ==
    \A r \in Requests :
        uploadFailedAt[r] = "embedding" =>
            /\ uploadPc[r] = "done"
            /\ uploadRes[r] = [status |-> 500, error |-> "embedding"]
            /\ upsertCalls[r] = <<>>
            /\ i[r] < Len(textChunks[r])
            /\ Len(embedInputs[r]) = NonBlankAmong(textChunks[r], i[r] + 1)
            /\ embedInputs[r][Len(embedInputs[r])] = textChunks[r][i[r] + 1]

\* C5 witness: the embedding failed for a chunk that is neither the first
\* embedded nor the last of the document, and the other ingestion went on to
\* store its records afterwards.
C5_Witness ==
    \E r \in Requests :
        /\ uploadFailedAt[r] = "embedding"
        /\ vectors[r] # <<>>
        /\ i[r] + 1 < Len(textChunks[r])
        /\ Trim(textChunks[r][i[r] + 2]) # EmptyStr
        /\ index # EmptyIndex

\* C6 as claimed: a finished accepted chat request has had the [DONE] sentinel
\* event written exactly once, and never more than once before that.
C6_SentinelExactlyOnce ==
    /\ SentinelCount <= 1
    /\ (Accepted /\ chatPc = "done") => SentinelCount = 1

\* C7 as claimed: no text-fragment event follows a [DONE] event in a response.
C7_NothingAfterSentinel ==
    \A k \in 1..Len(res) : \A j \in (k + 1)..Len(res) :
        res[k] = Sentinel => res[j] = Sentinel

\* C8 as claimed: the non-empty contents of the deltas received, up to and
\* including the first one with a finish reason, are the first text-fragment
\* events of the response, one event each, in the order received.
C8_DeltasRelayedInOrder ==
    IsPrefix(ContentsOf(UpToFinish(received)), TextEvents)

\* the collaborator calls a handler of the given variant has issued when the
\* call named step is the last one
CallsThrough(variant, step) ==
    (IF variant = "express" THEN <<>> ELSE <<"init">>)
    \o (IF step = "embed" THEN <<"embed">>
        ELSE IF step = "query" THEN <<"embed", "query">>
        ELSE <<"embed", "query", "complete">>)

\* C9: when the question embedding, the vector store query or the start of the
\* streamed completion fails, the response is the single event [DONE], ended,
\* and no later step was invoked (the calls issued end with the failing one, no
\* prompt was built before the query answered, no delta was received).
C9_FailureYieldsOnlySentinel ==
    failedAt \in {"embed", "query", "complete"} =>
        /\ res = <<Sentinel>>
        /\ resEnded
        /\ chatPc = "done"
        /\ calls = CallsThrough(chatVariant, failedAt)
        /\ failedAt \in {"embed", "query"} => messages = NoPrompt
        /\ received = <<>>

\* C9 witness: the vector store query failed in a Next.js handler.
C9_Witness ==
    /\ failedAt = "query"
    /\ chatVariant # "express"
    /\ chatPc = "done"

\* C10 as claimed: a returned call on a text shorter than maxLength returned
\* exactly one element, the trimmed input.
C10_ShorterTextOneChunk ==
    (chunkPc = "returned" /\ StrLen(text) < maxLength) => chunks = <<Trim(text)>>

\* C10 amended: a returned call on a non-empty text shorter than maxLength
\* returned exactly one element, the trimmed input; on the empty text it
\* returned no element.
C10_NonEmptyShorterTextOneChunk ==
    (chunkPc = "returned" /\ StrLen(text) < maxLength) =>
        chunks = IF text = EmptyStr THEN <<>> ELSE <<Trim(text)>>

\* C10 witness: a returned call on a non-empty text shorter than maxLength that
\* has whitespace to trim.
C10_Witness ==
    /\ chunkPc = "returned"
    /\ text # EmptyStr
    /\ StrLen(text) < maxLength
    /\ Trim(text) # text
    /\ Trim(text) # EmptyStr

\* C11: for maxLength >= 1 every segment cut has at most maxLength characters
\* before trimming, and so has every chunk pushed.
C11_SegmentsWithinMaxLength ==
    maxLength >= 1 =>
        \A k \in 1..Len(segments) :
            /\ StrLen(segments[k]) <= maxLength
            /\ StrLen(chunks[k]) <= maxLength

\* C11 witness: a returned call that cut one segment of exactly maxLength
\* characters (a full window without a break point) and another, not the last,
\* at a break point.
C11_Witness ==
    /\ chunkPc = "returned"
    /\ maxLength >= 1
    /\ \E k \in 1..Len(segments) : StrLen(segments[k]) = maxLength
    /\ \E k \in 1..(Len(segments) - 1) :
          /\ StrLen(segments[k]) < maxLength
          /\ StrLen(segments[k]) > BreakThreshold

\* C12 as claimed: for every text and every integer maxLength the scan position
\* strictly increases on every loop iteration (so the loop ends once it reaches
\* the text length).
C12_StartStrictlyIncreases ==
    \A k \in 1..Len(starts) : starts[k] < SegmentEnd(k)

\* the text extraction of request r has resolved
Extracted(r) ==
    /\ uploadPc[r] \notin {"idle", "extract"}
    /\ uploadRes[r].status # 400
    /\ uploadFailedAt[r] # "extraction"

BlankDocument(r) ==
    /\ Extracted(r)
    /\ extractedText[r] # EmptyStr
    /\ Trim(extractedText[r]) = EmptyStr

Upserted(r) == IF upsertCalls[r] = <<>> THEN 0 ELSE Len(upsertCalls[r][1])

\* C15: the chunks number of a successful response is the length of the
\* chunker's output before the blank filter; it is greater than or equal to
\* the number of records upserted, with equality exactly when no chunk is blank.
C15_ChunksCountsBeforeFilter ==
    \A r \in Requests :
        uploadRes[r].status = 200 =>
            /\ uploadRes[r].chunks = Len(textChunks[r])
            /\ Len(upsertCalls[r]) <= 1
            /\ Upserted(r) = NonBlankAmong(textChunks[r], Len(textChunks[r]))
            /\ uploadRes[r].chunks >= Upserted(r)
            /\ (uploadRes[r].chunks = Upserted(r)) <=> AllNonBlank(textChunks[r])

\* C15 witness: a successful ingestion that upserted records and whose chunks
\* number is greater than the number of records, and one where they are equal.
C15_Witness ==
    /\ \E r \in Requests :
          /\ uploadRes[r].status = 200
          /\ Upserted(r) >= 1
          /\ uploadRes[r].chunks > Upserted(r)
    /\ \E r \in Requests :
          /\ uploadRes[r].status = 200
          /\ Upserted(r) >= 2
          /\ uploadRes[r].chunks = Upserted(r)

\* the matches of the query answer that carry text (match.metadata?.text is
\* truthy)
CarryingText(ms) == SelectSeq(ms, LAMBDA m : m.text # EmptyStr)

\* the texts of ms in order, each followed by a newline
RECURSIVE JoinedTexts(_)
JoinedTexts(ms) ==
    IF ms = <<>> THEN EmptyStr
    ELSE Concat(Concat(ms[1].text, << <<"\n", 1>> >>), JoinedTexts(Tail(ms)))

C17_MissingQuestionRejected ==
    /\ (chatPc # "idle" /\ question = "") =>
          /\ chatPc = "rejected"
          /\ resStatus = 400
          /\ resEnded
          /\ res = <<>>
          /\ calls = <<>>
          /\ queryResponse = NoMatches
          /\ messages = NoPrompt
          /\ received = <<>>
    /\ chatPc = "rejected" => question = ""

\* C17 witness: a Next.js handler has rejected a request without a question.
C17_Witness ==
    /\ chatPc = "rejected"
    /\ chatVariant = "next"
    /\ question = ""
    /\ resStatus = 400

\* the chunks of cs the loop does not skip, in chunk order
NonBlankChunks(cs) == SelectSeq(cs, LAMBDA c : Trim(c) # EmptyStr)

\* the embedding requests of request r that have been issued and have neither
\* resolved (each resolved one pushed a record) nor rejected
InFlight(r) ==
    Len(embedInputs[r]) - Len(vectors[r])
        - (IF uploadFailedAt[r] = "embedding" THEN 1 ELSE 0)

\* C18: within one ingestion the embedding requests are issued one at a time
\* in ascending chunk order: the requests issued so far are those of the first
\* non-blank chunks in order, every one but the last has resolved with the
\* record of its chunk, and at most one (the last) is in flight.
C18_EmbeddingsOneAtATime ==
    \A r \in Requests :
        LET issued == Len(embedInputs[r])
        IN  /\ InFlight(r) \in {0, 1}
            /\ InFlight(r) = 1 <=> uploadPc[r] = "embed"
            /\ issued <= Len(NonBlankChunks(textChunks[r]))
            /\ embedInputs[r] = SubSeq(NonBlankChunks(textChunks[r]), 1, issued)
            /\ Len(vectors[r]) <= issued
            /\ \A k \in 1..Len(vectors[r]) :
                  /\ vectors[r][k].metadata.text = embedInputs[r][k]
                  /\ vectors[r][k].values = Embedding(embedInputs[r][k])

\* C18 witness: both ingestions have an embedding request in flight at once,
\* one of them for its second or a later request, after skipping a blank chunk.
C18_Witness ==
    /\ \A r \in Requests : uploadPc[r] = "embed" /\ InFlight(r) = 1
    /\ \E r \in Requests :
          /\ Len(embedInputs[r]) >= 2
          /\ i[r] > Len(vectors[r])

\* the batch request r has written to the store so far: its vectors once its
\* upsert has resolved, nothing before that or if it failed
Batch(r) ==
    IF uploadPc[r] = "done" /\ uploadRes[r].status = 200 THEN vectors[r] ELSE <<>>

\* the record the store holds for an upserted vector
RecordOf(v) == [values |-> v.values, metadata |-> v.metadata]

\* the ids of a batch
BatchIds(vecs) == {vecs[k].id : k \in 1..Len(vecs)}

\* C19: with two ingestions interleaved in any way each one issues at most one
\* upsert call, and the store always equals the result of applying the batches
\* written so far one after the other in one of the two orders; the ids in
\* both batches all hold the records of one and the same ingestion.
C19_BatchesSerializable ==
    /\ \A r \in Requests : Len(upsertCalls[r]) <= 1
    /\ \/ index = Upsert(Upsert(EmptyIndex, Batch("r1")), Batch("r2"))
       \/ index = Upsert(Upsert(EmptyIndex, Batch("r2")), Batch("r1"))
    /\ \E r \in Requests :
          \A k \in 1..Len(Batch(r)) :
              (\A q \in Requests : Batch(r)[k].id \in BatchIds(Batch(q)))
                  => index[Batch(r)[k].id] = RecordOf(Batch(r)[k])

\* C19 witness: both ingestions have stored batches of different lengths whose
\* records differ at a common id.
C19_Witness ==
    /\ \A r \in Requests : Batch(r) # <<>>
    /\ Len(Batch("r1")) # Len(Batch("r2"))
    /\ Batch("r1")[1] # Batch("r2")[1]
    /\ Batch("r1")[1].id = Batch("r2")[1].id

\* C20: ingestion is additive with overwrite by id.  Every successful upsert
\* leaves each id of its batch holding the record of that batch, and every
\* other id holding the record it held before; no step removes a record from
\* the store, and no other step of an ingestion changes the store.
C20_AdditiveOverwriteById ==
    [][\A r \in Requests :
          /\ DOMAIN index \subseteq DOMAIN index'
          /\ (uploadPc[r] = "upsert" /\ uploadRes'[r].status = 200) =>
                /\ DOMAIN index' = DOMAIN index \cup BatchIds(vectors[r])
                /\ \A k \in 1..Len(vectors[r]) :
                      index'[vectors[r][k].id] = RecordOf(vectors[r][k])
                /\ \A id \in DOMAIN index \ BatchIds(vectors[r]) :
                      index'[id] = index[id]
          /\ (\A q \in Requests :
                 ~(uploadPc[q] = "upsert" /\ uploadRes'[q].status = 200))
                => index' = index]_vars

\* C20 witness: after ingesting A (the longer document) and then B, the ids of
\* B's batch hold B's records, which differ from A's, and the ids only A's
\* batch contained still hold A's records.
C20_Witness ==
    \E a, b \in Requests :
        /\ Batch(a) # <<>>
        /\ Batch(b) # <<>>
        /\ Len(Batch(a)) > Len(Batch(b))
        /\ \A k \in 1..Len(Batch(b)) :
              /\ index[Batch(b)[k].id] = RecordOf(Batch(b)[k])
              /\ RecordOf(Batch(b)[k]) # RecordOf(Batch(a)[k])
        /\ \A k \in (Len(Batch(b)) + 1)..Len(Batch(a)) :
              index[Batch(a)[k].id] = RecordOf(Batch(a)[k])

\* the window of iteration k: the maxLength characters from its scan position
Window(k) == Slice(text, starts[k], Min(starts[k] + maxLength, StrLen(text)))

\* the window of iteration k does not reach the end of the text
NonFinal(k) == starts[k] + maxLength < StrLen(text)

\* the character of the text at position p, as a string
CharAt(p) == Slice(text, p, p + 1)

\* C22: for each window that does not reach the end of the text: if its last
\* newline or its last space lies at an offset greater than 200, the segment
\* is cut at such a break point (its length before trimming is that offset and
\* the next window starts at the break character); otherwise it is cut at
\* exactly maxLength characters.
C22_CutAtBreakPointOrMaxLength ==
    maxLength >= 0 =>
        \A k \in 1..Len(segments) :
            NonFinal(k) =>
                LET ln  == LastIndexOf(Window(k), "\n")
                    ls  == LastIndexOf(Window(k), " ")
                    len == StrLen(segments[k])
                IN  /\ segments[k] = Slice(text, starts[k], starts[k] + len)
                    /\ SegmentEnd(k) = starts[k] + len
                    /\ IF ln > 200 \/ ls > 200
                       THEN /\ len > 200
                            /\ len \in {ln, ls}
                            /\ CharAt(SegmentEnd(k)) \in {<< <<"\n", 1>> >>, << <<" ", 1>> >>}
                       ELSE len = maxLength

\* C22 witness: a call that cut one window at a break point and another window,
\* whose last break character is at offset 200, at maxLength.
C22_Witness ==
    /\ maxLength > 201
    /\ \E k \in 1..Len(segments) :
          /\ NonFinal(k)
          /\ StrLen(segments[k]) > 200
          /\ StrLen(segments[k]) < maxLength
    /\ \E k \in 1..Len(segments) :
          /\ NonFinal(k)
          /\ StrLen(segments[k]) = maxLength
          /\ Max(LastIndexOf(Window(k), " "), LastIndexOf(Window(k), "\n")) = 200

\* C26: the newline takes precedence over the space.  In a window that does not
\* reach the end of the text, a last newline at an offset greater than 200 is
\* where the cut is made, also when a space occurs later in the window; the
\* last space is where the cut is made only when it lies at an offset greater
\* than 200 and the last newline does not.
C26_NewlinePrecedesSpace ==
    maxLength >= 0 =>
        \A k \in 1..Len(segments) :
            NonFinal(k) =>
                LET ln == LastIndexOf(Window(k), "\n")
                    ls == LastIndexOf(Window(k), " ")
                IN  /\ ln > 200 => StrLen(segments[k]) = ln
                    /\ (ln <= 200 /\ ls > 200) => StrLen(segments[k]) = ls
                    /\ (StrLen(segments[k]) = ls /\ ls # ln /\ ls > 200) => ln <= 200

\* C26 witness: a window was cut at its last newline although a space occurs
\* later in it, so not at the rightmost break character.
C26_Witness ==
    \E k \in 1..Len(segments) :
        /\ NonFinal(k)
        /\ LastIndexOf(Window(k), "\n") > 200
        /\ LastIndexOf(Window(k), " ") > LastIndexOf(Window(k), "\n")
        /\ StrLen(segments[k]) = LastIndexOf(Window(k), "\n")

\* C25 as claimed: for every maxLength <= 201 no cut is made at a newline or a
\* space: every segment except the last has exactly maxLength characters
\* before trimming, and a returned call has cut ceil(length / maxLength)
\* segments.
C25_HardCutsUpTo201 ==
    maxLength <= 201 =>
        /\ \A k \in 1..(Len(segments) - 1) : StrLen(segments[k]) = maxLength
        /\ chunkPc = "returned" =>
              /\ Len(chunks) * maxLength >= StrLen(text)
              /\ (Len(chunks) - 1) * maxLength < StrLen(text) \/ chunks = <<>>

\* C21 as claimed: once the client has abandoned the connection the handler
\* consumes no further delta from the completion stream and writes no further
\* event to the response.
C21_AbandonCancels ==
    [][clientGone => (received' = received /\ res' = res)]_vars

\* the other of the two requests
Other(r) == CHOOSE q \in Requests : q # r

\* C23: an ingestion request answered with an error (400 without a file, 500
\* after a failure of the extraction, of the client initialisation, of an
\* embedding or of the upsert) has left the store as it was: the store is what
\* the other ingestion alone has written, and the only upsert call such a
\* request can have issued is the one that failed.
C23_ErrorLeavesStoreUnchanged ==
    \A r \in Requests :
        uploadRes[r].status \in {400, 500} =>
            /\ uploadPc[r] = "done"
            /\ index = Upsert(EmptyIndex, Batch(Other(r)))
            /\ uploadFailedAt[r] # "upsert" => upsertCalls[r] = <<>>
            /\ uploadRes[r].status = 500 <=> uploadFailedAt[r] # "none"

\* C23 witness: one request was answered 500 after its third embedding request
\* failed, the other 500 after its upsert failed, and the store is empty.
C23_Witness ==
    /\ \E r \in Requests :
          /\ uploadFailedAt[r] = "embedding"
          /\ Len(vectors[r]) >= 2
          /\ uploadFailedAt[Other(r)] = "upsert"
          /\ Len(vectors[Other(r)]) >= 2
    /\ index = EmptyIndex

\* the position (zero-based) in cs of its k-th non-blank chunk
RECURSIVE NthNonBlank(_, _, _)
NthNonBlank(cs, k, from) ==
    IF Trim(cs[from + 1]) # EmptyStr
    THEN IF k = 1 THEN from ELSE NthNonBlank(cs, k - 1, from + 1)
    ELSE NthNonBlank(cs, k, from + 1)

\* C28: the id of the k-th record of a batch is chunk-i, where i is the position
\* of the k-th non-blank chunk in the chunker's output, blank chunks counted:
\* the ids of a batch are pairwise distinct and strictly increasing in i, and
\* they skip the positions of the blank chunks.
C28_IdsArePositionsBeforeFilter ==
    \A r \in Requests :
        /\ \A k \in 1..Len(vectors[r]) :
              LET pos == NthNonBlank(textChunks[r], k, 0)
              IN  /\ vectors[r][k].id = <<"chunk-", pos>>
                  /\ vectors[r][k].metadata.text = textChunks[r][pos + 1]
        /\ \A k \in 1..(Len(vectors[r]) - 1) :
              vectors[r][k].id[2] < vectors[r][k + 1].id[2]
        /\ \A k \in 1..Len(upsertCalls[r]) : upsertCalls[r][k] = vectors[r]

\* C28 witness: a batch was stored whose ids have a gap where a blank chunk was
\* skipped.
C28_Witness ==
    \E r \in Requests :
        /\ uploadRes[r].status = 200
        /\ Len(vectors[r]) >= 2
        /\ \E k \in 1..(Len(vectors[r]) - 1) :
              vectors[r][k + 1].id[2] > vectors[r][k].id[2] + 1
        /\ \A k \in 1..Len(vectors[r]) :
              index[vectors[r][k].id] = RecordOf(vectors[r][k])

\* the largest chunk count of a successfully ingested document
LargestChunkCount ==
    LET counts == {Len(textChunks[r]) : r \in {q \in Requests : uploadRes[q].status = 200}}
    IN  IF counts = {} THEN 0 ELSE CHOOSE n \in counts : \A m \in counts : m <= n

\* C29: the ids in the store are among chunk-0 .. chunk-(N-1), N being the
\* largest chunk count of a successfully ingested document, so the store holds
\* at most N records; and an id that only one stored batch contains holds the
\* record of that batch (the records of a longer document stay at the
\* positions a shorter one does not reach).
C29_IdsBelowLargestChunkCount ==
    /\ DOMAIN index \subseteq {<<"chunk-", n>> : n \in 0..(LargestChunkCount - 1)}
    /\ Cardinality(DOMAIN index) <= LargestChunkCount
    /\ \A r \in Requests :
          \A k \in 1..Len(Batch(r)) :
              Batch(r)[k].id \notin BatchIds(Batch(Other(r)))
                  => index[Batch(r)[k].id] = RecordOf(Batch(r)[k])

\* C29 witness: a longer and a shorter document were ingested; the store holds
\* the shorter one's records, which differ from the longer one's, at the
\* positions it reaches and the longer one's beyond, as many records as the
\* longer document has chunks.
C29_Witness ==
    \E a \in Requests :
        LET b == Other(a)
        IN  /\ Batch(a) # <<>>
            /\ Batch(b) # <<>>
            /\ Len(textChunks[a]) > Len(textChunks[b])
            /\ Cardinality(DOMAIN index) = LargestChunkCount
            /\ \A k \in 1..Len(Batch(b)) :
                  /\ index[Batch(b)[k].id] = RecordOf(Batch(b)[k])
                  /\ index[Batch(b)[k].id] # RecordOf(Batch(a)[k])
            /\ \E k \in 1..Len(Batch(a)) : Batch(a)[k].id \notin BatchIds(Batch(b))

\* the non-empty contents of ds, concatenated
RECURSIVE ConcatContents(_)
ConcatContents(ds) ==
    IF ds = <<>> THEN <<>> ELSE ds[1] \o ConcatContents(Tail(ds))

\* the assistant messages of the history
AssistantMessages == SelectSeq(msgs, LAMBDA m : m.role = "assistant")

\* C24 as claimed: for a single question, the answer the client has assembled
\* when it stops reading equals the concatenation of the non-empty contents of
\* the deltas the completion service produced, whatever the contents and
\* however the transport splits the stream into reads.
C24_AnswerEqualsDeltas ==
    (askPc["a1"] = "done" /\ askPc["a2"] = "idle") =>
        /\ Len(AssistantMessages) = 1
        /\ AssistantMessages[1].text = ConcatContents(produced["a1"])

\* C27 as claimed: every assistant message of the history holds only fragments
\* of the response of its own question, and every question read to the end
\* has exactly one assistant message, also when the second question is asked
\* while the first answer is streaming.
C27_AnswersNotMixed ==
    /\ \A k \in 1..Len(AssistantMessages) :
          LET m == AssistantMessages[k]
          IN  \A j \in 1..Len(m.text) :
                  \E c \in 1..Len(Body(produced[m.ask])) :
                      Body(produced[m.ask])[c] = m.text[j]
    /\ \A h \in Asks :
          Len(SelectSeq(AssistantMessages, LAMBDA m : m.ask = h))
              = (IF askPc[h] = "done" THEN 1 ELSE 0)

====
